---- MODULE Spec2Model ----
(***************************************************************************)
(* popolo/models.py: the abstract Popolo schema (Person, Organization,     *)
(* Post, Membership), the generator of their side tables, and the pre_save *)
(* validation hook.                                                        *)
(*                                                                         *)
(* The module is modelled in two phases.  Loading executes the top-level   *)
(* statements of models.py in order and builds the module's globals (the   *)
(* class descriptors with their fields) and the signal registry.  Once     *)
(* loaded, the host application's concrete models (the classes the paths   *)
(* model_path(...) name) are saved and deleted; saving and deleting follow *)
(* the field descriptors the load phase built.                             *)
(***************************************************************************)
EXTENDS Integers, Sequences, FiniteSets, TLC

VARIABLES
    settings,   \* django.conf.settings, a record of the attributes it has
    pc,         \* index of the next top-level statement of models.py, or an exception
    globals,    \* the module's globals(): name -> class descriptor / function
    receivers,  \* pre_save's registry: the (receiver, sender) pairs connected
    tables,     \* the host application's tables: the rows, each tagged with its model
    nextId,     \* the AutoField sequence of each table
    last        \* the last save/delete call: its model, its outcome, whether the hook ran

vars == <<settings, pc, globals, receivers, tables, nextId, last>>

-----------------------------------------------------------------------------
(* Bounds of the model.                                                    *)

\* rows inserted in a run, over all tables
MaxRows == 3

-----------------------------------------------------------------------------
(* Python values.  A str is its sequence of characters.                    *)

None == [py |-> "None"]
Str(s) == [py |-> "str", s |-> s]
Pk(n) == [py |-> "int", v |-> n]

\* django.core.validators.EMPTY_VALUES, as far as fields here can hold them
EMPTY_VALUES == {None, Str(<<>>)}

Digits == {"0", "1", "2", "3", "4", "5", "6", "7", "8", "9"}

-----------------------------------------------------------------------------
(* Field descriptors, as the class bodies declare them.                    *)

CharField(name, max_length, null, blank, validators) ==
    [name |-> name, type |-> "CharField", max_length |-> max_length,
     null |-> null, blank |-> blank, validators |-> validators,
     to |-> "", related_name |-> ""]

\* models.ForeignKey(to, null=..., related_name=...): blank is never passed
\* in models.py, so it keeps Django's default, False.
ForeignKey(name, to, null, related_name) ==
    [name |-> name, type |-> "ForeignKey", max_length |-> 0,
     null |-> null, blank |-> FALSE, validators |-> {},
     to |-> to, related_name |-> related_name]

Class(bases, fields) ==
    [kind |-> "class", bases |-> bases, abstract |-> TRUE, fields |-> fields]

Function == [kind |-> "function", bases |-> <<>>, abstract |-> FALSE, fields |-> {}]

\* model_path = lambda model_name: settings.POPOLO_APP_NAME + '.' + model_name
model_path_nodot(s, model_name) == s.POPOLO_APP_NAME \o model_name

model_path(s, model_name) == s.POPOLO_APP_NAME \o "." \o model_name

\* the name of the validator RegexValidator(regex='^[0-9]{4}(-[0-9]{2}){0,2}$')
PartialDateRegex == "^[0-9]{4}(-[0-9]{2}){0,2}$"

(* .behaviors.models is imported, not defined, by models.py.               *)
DateframeableFields ==
    { CharField("start_date", 10, TRUE, TRUE, {PartialDateRegex}),
      CharField("end_date", 10, TRUE, TRUE, {PartialDateRegex}) }

PermalinkableFields ==
    { [name |-> "slug", type |-> "SlugField", max_length |-> 50,
       null |-> FALSE, blank |-> TRUE, validators |-> {},
       to |-> "", related_name |-> ""] }

Behaviors ==
    [ Dateframeable |-> Class(<<>>, DateframeableFields),
      Timestampable |-> Class(<<>>, {}),
      Permalinkable |-> Class(<<>>, PermalinkableFields) ]

(* The hand-written classes.  Of each class the fields that are required   *)
(* or carry a constraint are modelled; the remaining ones are all          *)
(* null=True, blank=True fields, which a save may leave unset.  The        *)
(* choices of contact_type and gender and the URL syntax of url are not    *)
(* modelled: every save here passes values that meet them.                 *)

PopoloModelClass == Class(<<>>, {})

ContactDetailBaseClass ==
    Class(<<"Timestampable", "Dateframeable">>,
          { CharField("contact_type", 12, FALSE, FALSE, {}),
            CharField("value", 128, FALSE, FALSE, {}) })

IdentifierBaseClass ==
    Class(<<>>, { CharField("identifier", 128, FALSE, FALSE, {}) })

LinkBaseClass ==
    Class(<<>>, { CharField("url", 200, FALSE, FALSE, {}) })

OtherNameBaseClass ==
    Class(<<"Dateframeable">>, { CharField("name", 128, FALSE, FALSE, {}) })

PersonClass ==
    Class(<<"Dateframeable", "Timestampable", "Permalinkable", "PopoloModel">>,
          { CharField("name", 128, FALSE, FALSE, {}),
            CharField("birth_date", 10, TRUE, TRUE, {}),
            CharField("death_date", 10, TRUE, TRUE, {}) })

OrganizationClass(s) ==
    Class(<<"Dateframeable", "Timestampable", "Permalinkable", "PopoloModel">>,
          { CharField("name", 128, FALSE, FALSE, {}),
            ForeignKey("parent", model_path(s, "Organization"), TRUE, ""),
            CharField("dissolution_date", 10, TRUE, TRUE, {PartialDateRegex}),
            CharField("founding_date", 10, TRUE, TRUE, {PartialDateRegex}) })

PostClass(s) ==
    Class(<<"Dateframeable", "Timestampable", "Permalinkable", "PopoloModel">>,
          { CharField("label", 128, FALSE, FALSE, {}),
            ForeignKey("organization", model_path(s, "Organization"), FALSE, "posts") })

MembershipClass_nullable(s) ==
    Class(<<"Dateframeable", "Timestampable", "PopoloModel">>,
          { CharField("label", 128, TRUE, TRUE, {}),
            ForeignKey("person", model_path(s, "Person"), FALSE, "memberships"),
            ForeignKey("organization", model_path(s, "Organization"), FALSE, "memberships"),
            ForeignKey("on_behalf_of", model_path(s, "Organization"), TRUE,
                       "memberships_on_behalf_of"),
            ForeignKey("post", model_path(s, "Post"), TRUE, "memberships") })

MembershipClass(s) ==
    Class(<<"Dateframeable", "Timestampable", "PopoloModel">>,
          { CharField("label", 128, TRUE, TRUE, {}),
            ForeignKey("person", model_path(s, "Person"), FALSE, "memberships"),
            ForeignKey("organization", model_path(s, "Organization"), FALSE, "memberships"),
            ForeignKey("on_behalf_of", model_path(s, "Organization"), FALSE,
                       "memberships_on_behalf_of"),
            ForeignKey("post", model_path(s, "Post"), TRUE, "memberships") })

-----------------------------------------------------------------------------
(* _generate_common_tables(model, extra_info)                              *)

\* str.lower() of the four class names the generator is called with
lower(base_name) ==
    CASE base_name = "Person" -> "person"
      [] base_name = "Organization" -> "organization"
      [] base_name = "Post" -> "post"
      [] base_name = "Membership" -> "membership"

linked_info_types(extra_info) ==
    << [name |-> "ContactDetail", related_name |-> "contact_details",
        base_class |-> "ContactDetailBase"],
       [name |-> "Link", related_name |-> "links", base_class |-> "LinkBase"],
       [name |-> "Source", related_name |-> "sources", base_class |-> "LinkBase"] >>
    \o (IF extra_info
        THEN << [name |-> "Identifier", related_name |-> "identifiers",
                 base_class |-> "IdentifierBase"],
                [name |-> "OtherName", related_name |-> "other_names",
                 base_class |-> "OtherNameBase"] >>
        ELSE << >>)

\* type(class_name, (PopoloModel, info['base_class']), {..., link_name: ForeignKey(...)})
linked_info_model_nullable(s, base_name, info) ==
    Class(<<"PopoloModel", info.base_class>>,
          { ForeignKey(lower(base_name), model_path(s, base_name), TRUE,
                       info.related_name) })

linked_info_model(s, base_name, info) ==
    Class(<<"PopoloModel", info.base_class>>,
          { ForeignKey(lower(base_name), model_path(s, base_name), FALSE,
                       info.related_name) })

\* the for loop: globals()[class_name] = linked_info_model, an assignment
\* that replaces whatever the name held
RECURSIVE generate_loop(_, _, _, _, _)
generate_loop(g, s, base_name, infos, i) ==
    IF i > Len(infos) THEN g
    ELSE LET info == infos[i]
             class_name == base_name \o info.name
             bound == [n \in (DOMAIN g) \cup {class_name} |->
                          IF n = class_name
                          THEN linked_info_model(s, base_name, info)
                          ELSE g[n]]
         IN generate_loop(bound, s, base_name, infos, i + 1)

generate_common_tables_samename(g, s, base_name, extra_info) ==
    generate_loop(g, s, "Person", linked_info_types(extra_info), 1)

generate_common_tables(g, s, base_name, extra_info) ==
    generate_loop(g, s, base_name, linked_info_types(extra_info), 1)

-----------------------------------------------------------------------------
(* The top-level statements of models.py, in source order.                 *)

Program ==
    << [op |-> "import", name |-> "behaviors", extra_info |-> FALSE],
       [op |-> "class", name |-> "PopoloModel", extra_info |-> FALSE],
       [op |-> "require_setting", name |-> "POPOLO_APP_NAME", extra_info |-> FALSE],
       [op |-> "lambda", name |-> "model_path", extra_info |-> FALSE],
       [op |-> "class", name |-> "ContactDetailBase", extra_info |-> FALSE],
       [op |-> "class", name |-> "IdentifierBase", extra_info |-> FALSE],
       [op |-> "class", name |-> "LinkBase", extra_info |-> FALSE],
       [op |-> "class", name |-> "OtherNameBase", extra_info |-> FALSE],
       [op |-> "def", name |-> "_generate_common_tables", extra_info |-> FALSE],
       [op |-> "class", name |-> "Person", extra_info |-> FALSE],
       [op |-> "generate", name |-> "Person", extra_info |-> TRUE],
       [op |-> "class", name |-> "Organization", extra_info |-> FALSE],
       [op |-> "generate", name |-> "Organization", extra_info |-> TRUE],
       [op |-> "class", name |-> "Post", extra_info |-> FALSE],
       [op |-> "generate", name |-> "Post", extra_info |-> FALSE],
       [op |-> "class", name |-> "Membership", extra_info |-> FALSE],
       [op |-> "generate", name |-> "Membership", extra_info |-> FALSE],
       [op |-> "receiver", name |-> "validate_date_fields", extra_info |-> FALSE] >>

Loading == pc \in 1..Len(Program)
Loaded == pc = Len(Program) + 1
Stmt == Program[pc]

ClassBody(s, name) ==
    CASE name = "PopoloModel" -> PopoloModelClass
      [] name = "ContactDetailBase" -> ContactDetailBaseClass
      [] name = "IdentifierBase" -> IdentifierBaseClass
      [] name = "LinkBase" -> LinkBaseClass
      [] name = "OtherNameBase" -> OtherNameBaseClass
      [] name = "Person" -> PersonClass
      [] name = "Organization" -> OrganizationClass(s)
      [] name = "Post" -> PostClass(s)
      [] name = "Membership" -> MembershipClass(s)

Bind(g, name, value) ==
    [n \in (DOMAIN g) \cup {name} |-> IF n = name THEN value ELSE g[n]]

RuntimeUnchanged == UNCHANGED <<tables, nextId, last>>

\* from .behaviors.models import Permalinkable, Timestampable, Dateframeable
ImportBehaviors ==
    /\ Loading /\ Stmt.op = "import"
    /\ globals' = [n \in (DOMAIN globals) \cup DOMAIN Behaviors |->
                      IF n \in DOMAIN Behaviors THEN Behaviors[n] ELSE globals[n]]
    /\ pc' = pc + 1
    /\ UNCHANGED <<settings, receivers>> /\ RuntimeUnchanged

\* if not hasattr(settings, 'POPOLO_APP_NAME'): raise ImproperlyConfigured(...)
RequireSetting ==
    /\ Loading /\ Stmt.op = "require_setting"
    /\ pc' = IF "POPOLO_APP_NAME" \in DOMAIN settings
             THEN pc + 1
             ELSE 0
    /\ UNCHANGED <<settings, globals, receivers>> /\ RuntimeUnchanged

\* model_path = lambda ...; def _generate_common_tables(...)
DefineFunction ==
    /\ Loading /\ Stmt.op \in {"lambda", "def"}
    /\ globals' = Bind(globals, Stmt.name, Function)
    /\ pc' = pc + 1
    /\ UNCHANGED <<settings, receivers>> /\ RuntimeUnchanged

\* class X(...): the class body is evaluated, then the name is bound
DefineClass ==
    /\ Loading /\ Stmt.op = "class"
    /\ globals' = Bind(globals, Stmt.name, ClassBody(settings, Stmt.name))
    /\ pc' = pc + 1
    /\ UNCHANGED <<settings, receivers>> /\ RuntimeUnchanged

\* _generate_common_tables(Person, True) and the three calls like it
GenerateCommonTables ==
    /\ Loading /\ Stmt.op = "generate"
    /\ globals' = generate_common_tables(globals, settings, Stmt.name, Stmt.extra_info)
    /\ pc' = pc + 1
    /\ UNCHANGED <<settings, receivers>> /\ RuntimeUnchanged

\* The class objects a signal is sent by or connected for.  models.py's own
\* classes are abstract; the models the host application saves are its
\* subclasses of them, which are other class objects.
AbstractClass(name) == [name |-> name, abstract |-> TRUE]
ConcreteClass(name) == [name |-> name, abstract |-> FALSE]

\* @receiver(pre_save, sender=Person) @receiver(.., sender=Organization)
\* @receiver(.., sender=Post) def validate_date_fields
ReceiverSenders == {"Person", "Organization", "Post"}

ConnectReceivers ==
    /\ Loading /\ Stmt.op = "receiver"
    /\ globals' = Bind(globals, Stmt.name, Function)
    /\ receivers' = receivers \cup
          {[receiver |-> Stmt.name, sender |-> AbstractClass(n)] : n \in ReceiverSenders}
    /\ pc' = pc + 1
    /\ UNCHANGED settings /\ RuntimeUnchanged

Load ==
    \/ ImportBehaviors
    \/ RequireSetting
    \/ DefineFunction
    \/ DefineClass
    \/ GenerateCommonTables
    \/ ConnectReceivers

-----------------------------------------------------------------------------
(* Strings used as field values.                                           *)

JaneDoe == <<"J", "a", "n", "e", " ", "D", "o", "e">>
Chairperson == <<"C", "h", "a", "i", "r", "p", "e", "r", "s", "o", "n">>
Acme == <<"A", "c", "m", "e">>
D_1990_02_30 == <<"1", "9", "9", "0", "-", "0", "2", "-", "3", "0">>
D_2000_13 == <<"2", "0", "0", "0", "-", "1", "3">>
D_2010 == <<"2", "0", "1", "0">>
D_2020 == <<"2", "0", "2", "0">>
D_abc == <<"a", "b", "c">>
Phone == <<"p", "h", "o", "n", "e">>

-----------------------------------------------------------------------------
(* The fields of a class: its own and those of its bases.                  *)

RECURSIVE FieldsOf(_, _)
FieldsOf(g, name) ==
    IF name \notin DOMAIN g THEN {}
    ELSE g[name].fields \cup UNION {FieldsOf(g, g[name].bases[i]) : i \in DOMAIN g[name].bases}

RECURSIVE IsSubclass(_, _, _)
IsSubclass(g, name, base) ==
    \/ name = base
    \/ /\ name \in DOMAIN g
       /\ \E i \in DOMAIN g[name].bases : IsSubclass(g, g[name].bases[i], base)

\* The classes the host application makes concrete: every abstract
\* PopoloModel of the module, hand-written or generated.
ConcreteModels(g) ==
    {n \in DOMAIN g : g[n].kind = "class" /\ n # "PopoloModel" /\ IsSubclass(g, n, "PopoloModel")}

\* the model a ForeignKey's target path names
TargetOf(s, g, to) == CHOOSE n \in ConcreteModels(g) : model_path(s, n) = to

RowsOf(t, m) == {r \in t : r.model = m}
Exists(t, m, pk) == \E r \in RowsOf(t, m) : r.pk = pk

-----------------------------------------------------------------------------
(* RegexValidator(regex='^[0-9]{4}(-[0-9]{2}){0,2}$'): regex.search(value) *)

\* (-[0-9]{2}){0,n} followed by $; Python's $ also matches before a final newline
RECURSIVE MatchGroups(_, _)
MatchGroups(s, n) ==
    \/ s = <<>>
    \/ s = <<"\n">>
    \/ /\ n > 0
       /\ Len(s) >= 3
       /\ s[1] = "-" /\ s[2] \in Digits /\ s[3] \in Digits
       /\ MatchGroups(SubSeq(s, 4, Len(s)), n - 1)

\* a stricter check that also bounds the month and the day
RegexSearch_calendar(s) ==
    /\ Len(s) \in {4, 7, 10}
    /\ \A i \in 1..4 : s[i] \in Digits
    /\ Len(s) >= 7 => s[5] = "-" /\ <<s[6], s[7]>> \in
           {<<"0", d>> : d \in Digits \ {"0"}} \cup {<<"1", d>> : d \in {"0", "1", "2"}}
    /\ Len(s) = 10 => s[8] = "-" /\ <<s[9], s[10]>> \in
           {<<"0", d>> : d \in Digits \ {"0"}} \cup {<<d, e>> : d \in {"1", "2"}, e \in Digits}

RegexSearch(s) ==
    /\ Len(s) >= 4
    /\ \A i \in 1..4 : s[i] \in Digits
    /\ MatchGroups(SubSeq(s, 5, Len(s)), 2)

-----------------------------------------------------------------------------
(* Model.full_clean(), which validate_date_fields calls.                   *)

\* Field.run_validators: skipped for empty values; a CharField carries a
\* MaxLengthValidator besides the validators it is given
run_validators(field, value) ==
    \/ value \in EMPTY_VALUES
    \/ value.py # "str"
    \/ /\ Len(value.s) <= field.max_length
       /\ PartialDateRegex \in field.validators => RegexSearch(value.s)

\* Field.validate, and ForeignKey.validate's check that the row exists
validate(s, g, t, field, value) ==
    /\ ~(value = None /\ ~field.null)
    /\ ~(~field.blank /\ value \in EMPTY_VALUES)
    /\ (field.type = "ForeignKey" /\ value # None) => Exists(t, TargetOf(s, g, field.to), value)

\* Model.clean_fields: a blank=True field holding an empty value is skipped
clean_fields(s, g, t, inst) ==
    \A field \in FieldsOf(g, inst.model) :
        \/ field.name \notin DOMAIN inst.f
        \/ field.blank /\ inst.f[field.name] \in EMPTY_VALUES
        \/ /\ validate(s, g, t, field, inst.f[field.name])
           /\ run_validators(field, inst.f[field.name])

\* Python's < on str: by code point, a proper prefix first
CodePoints == <<"\n", " ", "-", "0", "1", "2", "3", "4", "5", "6", "7", "8", "9",
                "A", "C", "D", "J", "a", "b", "c", "d", "e", "h", "i", "m", "n",
                "o", "p", "r", "s">>
Ord(c) == CHOOSE i \in DOMAIN CodePoints : CodePoints[i] = c

RECURSIVE StrLess(_, _)
StrLess(a, b) ==
    IF b = <<>> THEN FALSE
    ELSE IF a = <<>> THEN TRUE
    ELSE IF a[1] = b[1] THEN StrLess(Tail(a), Tail(b))
    ELSE Ord(a[1]) < Ord(b[1])

\* Dateframeable's validation: start <= end when both are present
DateframeableClean(g, inst) ==
    IsSubclass(g, inst.model, "Dateframeable") =>
        \/ inst.f["start_date"] \in EMPTY_VALUES
        \/ inst.f["end_date"] \in EMPTY_VALUES
        \/ ~StrLess(inst.f["end_date"].s, inst.f["start_date"].s)

full_clean(s, g, t, inst) ==
    /\ clean_fields(s, g, t, inst)
    /\ DateframeableClean(g, inst)

-----------------------------------------------------------------------------
(* pre_save.send(sender=instance.__class__, instance=instance)             *)

\* Signal._live_receivers: a receiver connected for a sender is called for
\* that very class object only (or for every sender, if connected for None)
live_receivers(rs, sender) ==
    {r \in rs : r.sender = None \/ r.sender = sender}

-----------------------------------------------------------------------------
(* Permalinkable: the slug is derived from slug_source when a record is    *)
(* created and kept afterwards.                                            *)

Upper == <<"A", "C", "D", "J">>
LowerOf == <<"a", "c", "d", "j">>

SlugChar(c) ==
    IF \E i \in DOMAIN Upper : Upper[i] = c
    THEN <<LowerOf[CHOOSE i \in DOMAIN Upper : Upper[i] = c]>>
    ELSE IF c \in {" ", "-"} THEN <<"-">>
    ELSE IF c \in Digits \/ \E i \in DOMAIN CodePoints : CodePoints[i] = c /\ i > 13
    THEN <<c>>
    ELSE <<>>

RECURSIVE slugify(_)
slugify(s) == IF s = <<>> THEN <<>> ELSE SlugChar(s[1]) \o slugify(Tail(s))

\* the slug_source property of each class
slug_source(inst) ==
    CASE inst.model \in {"Person", "Organization"} -> inst.f["name"]
      [] inst.model \in {"Post", "Membership"} -> inst.f["label"]

Slug(g, inst) ==
    IF IsSubclass(g, inst.model, "Permalinkable") /\ slug_source(inst) # None
    THEN Str(slugify(slug_source(inst).s))
    ELSE None

-----------------------------------------------------------------------------
(* Model.save(): pre_save is sent, then the row is written; the database   *)
(* enforces NOT NULL on every null=False column and the foreign keys.      *)

IntegrityOk(s, g, t, inst) ==
    \A field \in FieldsOf(g, inst.model) :
        \/ field.name \notin DOMAIN inst.f
        \/ /\ ~field.null => inst.f[field.name] # None
           /\ (field.type = "ForeignKey" /\ inst.f[field.name] # None)
                  => Exists(t, TargetOf(s, g, field.to), inst.f[field.name])

NextIdOf(m) == IF m \in DOMAIN nextId THEN nextId[m] ELSE 1

\* the number of rows inserted so far, over all tables
RECURSIVE Inserted(_)
Inserted(ids) ==
    IF DOMAIN ids = {} THEN 0
    ELSE LET m == CHOOSE n \in DOMAIN ids : TRUE
         IN  (ids[m] - 1) + Inserted([n \in (DOMAIN ids) \ {m} |-> ids[n]])

Outcome(inst) ==
    LET called == live_receivers(receivers, ConcreteClass(inst.model))
    IN  IF called # {} /\ ~full_clean(settings, globals, tables, inst)
        THEN "ValidationError"
        ELSE IF ~IntegrityOk(settings, globals, tables, inst)
        THEN "IntegrityError"
        ELSE "saved"

Save(inst) ==
    /\ Loaded
    /\ inst.model \in ConcreteModels(globals)
    /\ inst.pk # None => Exists(tables, inst.model, inst.pk)
    /\ LET m == inst.model
           outcome == Outcome(inst)
           insert == inst.pk = None
           old == CHOOSE r \in RowsOf(tables, m) : r.pk = inst.pk
           row == [model |-> m,
                   pk |-> IF insert THEN Pk(NextIdOf(m)) ELSE inst.pk,
                   f |-> inst.f,
                   slug |-> IF insert THEN Slug(globals, inst) ELSE old.slug]
       IN  /\ (outcome = "saved" /\ insert) => Inserted(nextId) < MaxRows
           /\ last' = [op |-> "save", model |-> m, outcome |-> outcome,
                       validated |-> live_receivers(receivers, ConcreteClass(m)) # {}]
           /\ IF outcome = "saved"
              THEN /\ tables' = (IF insert THEN tables ELSE tables \ {old}) \cup {row}
                   /\ nextId' = IF insert
                                THEN [n \in (DOMAIN nextId) \cup {m} |->
                                         IF n = m THEN NextIdOf(m) + 1 ELSE nextId[n]]
                                ELSE nextId
              ELSE UNCHANGED <<tables, nextId>>
    /\ UNCHANGED <<settings, pc, globals, receivers>>

-----------------------------------------------------------------------------
(* Model.delete(): no ForeignKey of models.py passes on_delete, so every   *)
(* one cascades: the rows that reference a deleted row are deleted too.    *)

References(s, g, r, target) ==
    \E field \in FieldsOf(g, r.model) :
        /\ field.type = "ForeignKey"
        /\ field.name \in DOMAIN r.f
        /\ r.f[field.name] = target.pk
        /\ TargetOf(s, g, field.to) = target.model

RECURSIVE Collect(_, _, _, _)
Collect(s, g, t, doomed) ==
    LET more == {r \in t \ doomed : \E d \in doomed : References(s, g, r, d)}
    IN  IF more = {} THEN doomed ELSE Collect(s, g, t, doomed \cup more)

Delete(m, pk) ==
    /\ Loaded
    /\ Exists(tables, m, pk)
    /\ LET row == CHOOSE r \in RowsOf(tables, m) : r.pk = pk
       IN  /\ tables' = tables \ Collect(settings, globals, tables, {row})
           /\ last' = [op |-> "delete", model |-> m, outcome |-> "deleted",
                       validated |-> FALSE]
    /\ UNCHANGED <<settings, pc, globals, receivers, nextId>>

-----------------------------------------------------------------------------
ModelNames == {"Person", "Organization", "Post", "Membership"}

AppNames == {"app", "civic"}

Init ==
    /\ settings \in {[DEBUG |-> FALSE]}
                    \cup {[DEBUG |-> FALSE, POPOLO_APP_NAME |-> a] : a \in AppNames}
    /\ pc = 1
    /\ globals = [n \in {"settings"} |-> Function]
    /\ receivers = {}
    /\ tables = {}
    /\ nextId = [m \in {} |-> 1]
    /\ last = [op |-> "none", model |-> "", outcome |-> "", validated |-> FALSE]

-----------------------------------------------------------------------------
(* The calls the host application makes.                                   *)

\* start_date/end_date pairs: in order, out of order
Frames == { <<Str(D_2010), Str(D_2020)>>, <<Str(D_2020), Str(D_2010)>> }

DateInputs == {Str(D_1990_02_30), Str(D_2000_13), Str(D_abc)}

Instance(m, pk, f) == [model |-> m, pk |-> pk, f |-> f]

\* new records that vary one date field or the date frame, with every
\* reference in place
DateSaves ==
    {Instance("Person", None,
              [name |-> Str(JaneDoe), birth_date |-> d[1], death_date |-> d[2],
               start_date |-> None, end_date |-> None]) :
        d \in {<<None, None>>, <<Str(D_abc), None>>, <<None, Str(D_1990_02_30)>>}}
    \cup
    {Instance("Organization", None,
              [name |-> Str(Acme), parent |-> None, founding_date |-> d[1],
               dissolution_date |-> d[2], start_date |-> None, end_date |-> None]) :
        d \in {<<None, None>>} \cup {<<x, None>> : x \in DateInputs}
                               \cup {<<None, x>> : x \in DateInputs}}
    \cup
    {Instance("Person", None,
              [name |-> Str(JaneDoe), birth_date |-> None, death_date |-> None,
               start_date |-> fr[1], end_date |-> fr[2]]) : fr \in Frames}
    \cup
    {Instance("Post", None,
              [label |-> Str(Chairperson), organization |-> Pk(1),
               start_date |-> fr[1], end_date |-> fr[2]]) : fr \in Frames}
    \cup
    {Instance("Membership", None,
              [label |-> None, person |-> Pk(1), organization |-> Pk(1),
               on_behalf_of |-> Pk(1), post |-> None,
               start_date |-> fr[1], end_date |-> fr[2]]) : fr \in Frames}
    \cup
    {Instance("PersonContactDetail", None,
              [person |-> Pk(1), contact_type |-> Str(Phone), value |-> Str(Phone),
               start_date |-> fr[1], end_date |-> fr[2]]) : fr \in Frames}
    \cup
    {Instance("OrganizationOtherName", None,
              [organization |-> Pk(1), name |-> Str(Acme),
               start_date |-> fr[1], end_date |-> fr[2]]) : fr \in Frames}

\* the fields a generated side table takes from its base class, all valid
InfoFields(kind) ==
    CASE kind = "ContactDetail" ->
             [contact_type |-> Str(Phone), value |-> Str(Phone),
              start_date |-> None, end_date |-> None]
      [] kind \in {"Link", "Source"} -> [url |-> Str(Acme)]
      [] kind = "Identifier" -> [identifier |-> Str(Acme)]
      [] kind = "OtherName" -> [name |-> Str(Acme), start_date |-> None, end_date |-> None]

\* a reference is omitted, names the first row, or names the second
RefInputs == {None, Pk(1), Pk(2)}

\* at most one of a Membership's three required references omitted
MembershipRefs ==
    {r \in [{"person", "organization", "on_behalf_of"} -> {None, Pk(1)}] :
        Cardinality({k \in DOMAIN r : r[k] = None}) <= 1}

\* the side tables saved: one of each kind, over three owners
SideTables ==
    { <<"Person", "ContactDetail">>, <<"Person", "Identifier">>,
      <<"Organization", "Source">>, <<"Organization", "OtherName">>,
      <<"Post", "Link">> }

\* saves that vary the references, with every date unset
RefSaves ==
    {Instance("Person", None,
              [name |-> Str(n), birth_date |-> None, death_date |-> None,
               start_date |-> None, end_date |-> None]) : n \in {JaneDoe}}
    \cup
    {Instance("Organization", pk,
              [name |-> Str(Acme), parent |-> parent, founding_date |-> None,
               dissolution_date |-> None, start_date |-> None, end_date |-> None]) :
        pk \in {None, Pk(1)}, parent \in RefInputs}
    \cup
    {Instance("Post", None,
              [label |-> Str(Chairperson), organization |-> o,
               start_date |-> None, end_date |-> None]) : o \in {None, Pk(1)}}
    \cup
    {Instance("Membership", None,
              [label |-> Str(Chairperson), person |-> r["person"], organization |-> r["organization"],
               on_behalf_of |-> r["on_behalf_of"], post |-> po,
               start_date |-> None, end_date |-> None]) :
        r \in MembershipRefs, po \in {None, Pk(1)}}
    \cup
    {Instance(t[1] \o t[2], None, [n \in {lower(t[1])} |-> owner] @@ InfoFields(t[2])) :
        t \in SideTables, owner \in {None, Pk(1)}}

SaveDates == \E inst \in DateSaves : Save(inst)

SaveRefs == \E inst \in RefSaves : Save(inst)

DeleteRow == \E m \in ConcreteModels(globals), i \in 1..MaxRows : Delete(m, Pk(i))

Next == Load \/ SaveRefs \/ DeleteRow

Spec == Init /\ [][Next]_vars

NextDates == Load \/ SaveDates

SpecDates == Init /\ [][NextDates]_vars

-----------------------------------------------------------------------------
(* Properties.                                                             *)

AsInstance(r) == Instance(r.model, r.pk, r.f)

Present(v) == v # None

\* C1: every save of a Person, Organization or Post runs full validation
\* before the record is persisted, so no stored record of these violates a
\* validator of one of its fields.
C1_SavesAreValidated ==
    \A r \in tables :
        r.model \in {"Person", "Organization", "Post"}
            => \A field \in FieldsOf(globals, r.model) :
                   field.name \in DOMAIN r.f => run_validators(field, r.f[field.name])

\* C2: every persisted founding_date, dissolution_date, birth_date and
\* death_date is absent or matches ^[0-9]{4}(-[0-9]{2}){0,2}$.
C2_DatesMatchPattern ==
    \A r \in tables :
        \A k \in {"founding_date", "dissolution_date", "birth_date", "death_date"} :
            (k \in DOMAIN r.f /\ Present(r.f[k])) => RegexSearch(r.f[k].s)

\* C3: every persisted record of a date-frameable entity that has both a
\* start and an end date has start <= end.
C3_FramesAreOrdered ==
    \A r \in tables :
        ({"start_date", "end_date"} \subseteq DOMAIN r.f
            /\ Present(r.f["start_date"]) /\ Present(r.f["end_date"]))
        => ~StrLess(r.f["end_date"].s, r.f["start_date"].s)

RequiredOfMembership == {"person", "organization", "on_behalf_of"}

\* C4: a Membership save that omits person, organization or on_behalf_of is
\* rejected, one that omits only post is accepted, and no persisted
\* Membership has a null person, organization or on_behalf_of.
C4_MembershipRequiresRefs ==
    /\ \A r \in RowsOf(tables, "Membership") :
           \A k \in RequiredOfMembership : r.f[k] # None
    /\ Loaded =>
           \A inst \in RefSaves :
               inst.model = "Membership" =>
                   /\ (\E k \in RequiredOfMembership : inst.f[k] = None)
                          => Outcome(inst) # "saved"
                   /\ ( /\ inst.f["post"] = None
                        /\ Exists(tables, "Person", inst.f["person"])
                        /\ Exists(tables, "Organization", inst.f["organization"])
                        /\ Exists(tables, "Organization", inst.f["on_behalf_of"]) )
                          => Outcome(inst) = "saved"

\* a Membership without a post is stored, and a later Membership save was refused
C4_Witness ==
    /\ \E r \in RowsOf(tables, "Membership") : r.f["post"] = None
    /\ last.op = "save" /\ last.model = "Membership" /\ last.outcome = "IntegrityError"

\* the side tables of an owner, and the accessor the owner reaches them by
SideKinds ==
    [ ContactDetail |-> "contact_details", Link |-> "links", Source |-> "sources",
      Identifier |-> "identifiers", OtherName |-> "other_names" ]

KindsOf(owner) ==
    IF owner \in {"Person", "Organization"}
    THEN {"ContactDetail", "Link", "Source", "Identifier", "OtherName"}
    ELSE {"ContactDetail", "Link", "Source"}

OwnerNames == [Person |-> "person", Organization |-> "organization",
               Post |-> "post", Membership |-> "membership"]

\* C5: every persisted side-table row references one existing owner: a row
\* saved without a valid owner is refused, and deleting an owner leaves no
\* row that referenced it.
C5_SideRowsHaveOwners ==
    /\ \A owner \in ModelNames : \A kind \in KindsOf(owner) :
           \A r \in RowsOf(tables, owner \o kind) :
               /\ r.f[OwnerNames[owner]] # None
               /\ Exists(tables, owner, r.f[OwnerNames[owner]])
    /\ Loaded =>
           \A inst \in RefSaves : \A owner \in ModelNames : \A kind \in KindsOf(owner) :
               ( /\ inst.model = owner \o kind
                 /\ ~Exists(tables, owner, inst.f[OwnerNames[owner]]) )
                   => Outcome(inst) # "saved"

\* a Person whose contact detail had been stored was deleted, and the contact
\* detail went with it
C5_Witness ==
    /\ last.op = "delete" /\ last.model = "Person"
    /\ "PersonContactDetail" \in DOMAIN nextId
    /\ RowsOf(tables, "PersonContactDetail") = {}
    /\ RowsOf(tables, "Person") = {}

HandWritten ==
    {"ContactDetailBase", "IdentifierBase", "LinkBase", "OtherNameBase",
     "Person", "Organization", "Post", "Membership"}

ForeignKeysOf(g, n) == {field \in g[n].fields : field.type = "ForeignKey"}

\* C6: without POPOLO_APP_NAME loading aborts with ImproperlyConfigured before
\* model_path, any entity or any side table is defined; with it, every
\* foreign key is bound to '<POPOLO_APP_NAME>.<ModelName>'.
C6_SettingIsRequired ==
    /\ "POPOLO_APP_NAME" \notin DOMAIN settings =>
           /\ pc \in {0, 1, 2, 3}
           /\ "model_path" \notin DOMAIN globals
           /\ \A n \in DOMAIN globals :
                  /\ n \notin HandWritten
                  /\ ForeignKeysOf(globals, n) = {}
                  /\ ~(\E base \in ModelNames, kind \in DOMAIN SideKinds : n = base \o kind)
    /\ pc = 0 => "POPOLO_APP_NAME" \notin DOMAIN settings
    /\ \A n \in DOMAIN globals : \A field \in ForeignKeysOf(globals, n) :
           \E m \in ModelNames : field.to = settings.POPOLO_APP_NAME \o "." \o m

\* loading stopped at the check, with nothing of the schema defined
C6_Witness ==
    /\ pc = 0
    /\ DOMAIN globals = {"settings", "PopoloModel"} \cup DOMAIN Behaviors

\* the classes a call of the generator made: type(class_name, (PopoloModel, base), ...)
Generated(g) ==
    {n \in DOMAIN g : g[n].kind = "class" /\ Len(g[n].bases) = 2
                      /\ g[n].bases[1] = "PopoloModel"}

\* C7: for each owner the generator makes exactly its ContactDetail, Link and
\* Source tables, and Identifier and OtherName for Person and Organization
\* only; each is named <Owner><Kind>, has one mandatory foreign key named
\* after the owner in lower case, and is reached by the accessor of its kind;
\* the 16 names are distinct.
C7_GeneratedTables ==
    Loaded =>
        /\ Generated(globals) =
               {owner \o kind : owner \in ModelNames, kind \in DOMAIN SideKinds}
                   \ {owner \o kind : owner \in {"Post", "Membership"},
                                      kind \in {"Identifier", "OtherName"}}
        /\ Cardinality(Generated(globals)) = 16
        /\ \A owner \in ModelNames : \A kind \in KindsOf(owner) :
               /\ owner \o kind \in DOMAIN globals
               /\ ForeignKeysOf(globals, owner \o kind) =
                      { ForeignKey(OwnerNames[owner],
                                   settings.POPOLO_APP_NAME \o "." \o owner,
                                   FALSE, SideKinds[kind]) }

\* the module is loaded, the last call of the generator included
C7_Witness ==
    /\ Loaded
    /\ "MembershipSource" \in DOMAIN globals
    /\ "PersonOtherName" \in DOMAIN globals

\* C8: on creation each Person, Organization, Post and Membership receives a
\* slug derived from its source field (name, name, label, label).
C8_EveryEntityHasSlug ==
    \A r \in tables :
        (r.model \in ModelNames /\ Present(slug_source(AsInstance(r))))
            => r.slug = Str(slugify(slug_source(AsInstance(r)).s))

ShapeOnly == {Str(D_1990_02_30), Str(D_2000_13)}

\* the date fields of C9 that hold a well-shaped date that is no calendar date
ShapeOnlyFields(inst) ==
    {k \in {"death_date", "founding_date", "dissolution_date"} :
        k \in DOMAIN inst.f /\ inst.f[k] \in ShapeOnly}

\* C9: dates are checked for shape only: a Person whose death_date, or an
\* Organization whose founding_date or dissolution_date, is "1990-02-30" or
\* "2000-13" passes the field's validators and is saved.
C9_ShapeOnly ==
    Loaded =>
        \A inst \in DateSaves :
            ShapeOnlyFields(inst) # {} =>
                /\ Outcome(inst) = "saved"
                /\ \A field \in FieldsOf(globals, inst.model) :
                       field.name \in ShapeOnlyFields(inst)
                           => run_validators(field, inst.f[field.name])

\* a Person who died on "1990-02-30" and an Organization founded in "2000-13" are stored
C9_Witness ==
    /\ \E r \in RowsOf(tables, "Person") : r.f["death_date"] = Str(D_1990_02_30)
    /\ \E r \in RowsOf(tables, "Organization") : r.f["founding_date"] = Str(D_2000_13)

\* C10: an Organization without a parent passes full validation and is
\* stored, and one whose parent is itself or a descendant is not refused.
C10_ParentIsOptional ==
    /\ \A r \in RowsOf(tables, "Organization") :
           r.f["parent"] = None => full_clean(settings, globals, tables, AsInstance(r))
    /\ Loaded =>
           \A inst \in RefSaves :
               (inst.model = "Organization" /\ inst.f["parent"] = None)
                   => Outcome(inst) = "saved"

====
